---- MODULE Spec2Model ----
(***************************************************************************)
(* Model of IssueHandler (src/src/core/types/tool.types.ts, lines 581-820): *)
(* the seven issue tool handlers of the Linear MCP server.  Every handler   *)
(* is an async method with one await: the code before the await runs as one *)
(* step (verifyAuth, validation, request building, the remote call), the    *)
(* code after it as a second step once the remote promise has settled.      *)
(* BaseHandler and LinearGraphQLClient are not part of the source at hand:  *)
(* BaseHandler's helpers are modelled from the specification, the client's  *)
(* results are inputs chosen by the environment.                            *)
(***************************************************************************)
EXTENDS Integers, Sequences, FiniteSets, TLC

VARIABLES
    auth,       \* whether LinearAuth holds a valid client
    pc,         \* pc[i]   : "idle", "awaiting" or "done"
    tool,       \* tool[i] : the handler invocation i runs
    args,       \* args[i] : the arguments invocation i was called with
    settled,    \* settled[i] : how the awaited remote promise settled
    response,   \* response[i] : what the invocation gave its caller
    calls       \* calls[i] : the remote calls invocation i has made, in order

vars == <<auth, pc, tool, args, settled, response, calls>>

----------------------------------------------------------------------------
(* Bounds of the model. *)

MaxInvocations == 2     \* concurrent invocations (SpecConcurrent)
MaxIds == 2             \* longest list of identifiers / ids / issues
MaxPriority == 1        \* priorities range over 0..MaxPriority
MaxNodes == 1           \* most issues in a remote result

----------------------------------------------------------------------------
(* JavaScript values, as far as the handlers look at them. *)

JsUndefined == [t |-> "undefined", s |-> "", n |-> 0, a |-> <<>>]
JsString(x) == [t |-> "string", s |-> x, n |-> 0, a |-> <<>>]
JsNumber(k) == [t |-> "number", s |-> "", n |-> k, a |-> <<>>]
JsObject(x) == [t |-> "object", s |-> x, n |-> 0, a |-> <<>>]
JsArray(xs) == [t |-> "array", s |-> "", n |-> 0, a |-> xs]

\* ToBoolean: undefined, "" and 0 are falsy; objects and arrays are truthy.
Truthy(v) ==
    CASE v.t = "undefined" -> FALSE
      [] v.t = "string" -> v.s # ""
      [] v.t = "number" -> v.n # 0
      [] OTHER -> TRUE

\* a || b
JsOr(a, b) == IF Truthy(a) THEN a ELSE b

\* typeof v
TypeOf(v) == IF v.t = "array" THEN "object" ELSE v.t

\* Array.isArray(v)
IsArray(v) == v.t = "array"

\* String(v), for the values an array of identifiers holds
RECURSIVE Join(_, _)
JsToString(v) ==
    CASE v.t = "string" -> v.s
      [] v.t = "number" -> ToString(v.n)
      [] v.t = "array" -> Join(v.a, ",")
      [] v.t = "object" -> "[object Object]"
      [] OTHER -> ""

\* xs.join(sep)
Join(xs, sep) ==
    IF Len(xs) = 0 THEN ""
    ELSE IF Len(xs) = 1 THEN JsToString(xs[1])
    ELSE JsToString(xs[1]) \o sep \o Join(Tail(xs), sep)

\* An empty object literal {} and the assignment obj.key = value.
EmptyObject == [k \in {} |-> JsUndefined]
SetKey(obj, key, value) == (key :> value) @@ obj

----------------------------------------------------------------------------
(* BaseHandler: the helpers every handler calls. *)

AuthErrorMessage == "Not authenticated"

\* What a piece of handler code comes to: it throws, it reaches its await
\* having made remote calls, or it returns a response.
Throw(message) == [kind |-> "throw", message |-> message]
Await(method, params) ==
    [kind |-> "await", calls |-> <<[method |-> method, params |-> params]>>]
Return(resp) == [kind |-> "return", response |-> resp]

\* verifyAuth(): the client when authenticated, an auth error otherwise.
verifyAuth(au) == IF au THEN Return("client") ELSE Throw(AuthErrorMessage)

\* validateRequiredParams(params, required): throws naming the missing fields.
MissingParams(params, required) ==
    SelectSeq(required, LAMBDA f : params[f].t = "undefined")
validateRequiredParams(params, required) ==
    IF Len(MissingParams(params, required)) > 0
    THEN Throw("Missing required parameters: "
               \o Join([k \in 1..Len(MissingParams(params, required)) |->
                          JsString(MissingParams(params, required)[k])], ", "))
    ELSE Return("ok")

\* createResponse(text): a narrative response.
createResponse(text) == [kind |-> "text", text |-> text]

\* createJsonResponse(data): a structured response carrying the document.
createJsonResponse(data) == [kind |-> "json", doc |-> data]

\* handleError(error, operation): the operation-failed error the caller sees.
handleError(message, operation) ==
    [kind |-> "error", operation |-> operation, cause |-> message]

----------------------------------------------------------------------------
(* Remote results (LinearGraphQLClient), chosen by the environment. *)

Absent == [present |-> FALSE, name |-> ""]
Named(x) == [present |-> TRUE, name |-> x]

Issue(k) ==
    [identifier |-> "ENG-" \o ToString(k),
     title |-> "Title " \o ToString(k),
     url |-> "https://linear.app/issue/ENG-" \o ToString(k),
     state |-> IF k % 2 = 1 THEN Named("Todo") ELSE Absent,
     assignee |-> IF k % 2 = 0 THEN Named("Ann") ELSE Absent,
     project |-> IF k % 2 = 1 THEN Named("Alpha") ELSE Absent]

Issues(n) == [k \in 1..n |-> Issue(k)]

\* A settled promise: resolved with a value, or rejected with an error.
Resolved(v) == [rejected |-> FALSE, message |-> "", value |-> v]
Rejected(m) == [rejected |-> TRUE, message |-> m, value |-> <<>>]
NetworkError == Rejected("Network error")

\* CreateIssueResponse: issueCreate {success, issue?}
CreateIssueResults ==
    {[issueCreate |-> [success |-> ok, issue |-> [present |-> p, value |-> Issue(k)]]] :
        ok \in BOOLEAN, p \in BOOLEAN, k \in 1..2}

\* CreateIssuesResponse: issueCreate {success, issues?}
CreateIssuesResults ==
    {[issueCreate |-> [success |-> ok, issues |-> [present |-> TRUE, value |-> Issues(n)]]] :
        ok \in BOOLEAN, n \in 0..MaxNodes}
    \cup {[issueCreate |-> [success |-> ok, issues |-> [present |-> FALSE, value |-> <<>>]]] :
        ok \in BOOLEAN}

\* UpdateIssueResponse: issueUpdate {success, issue?}
UpdateIssueResults ==
    {[issueUpdate |-> [success |-> ok, issue |-> [present |-> p, value |-> Issue(1)]]] :
        ok \in BOOLEAN, p \in BOOLEAN}

\* SearchIssuesResponse: issues {nodes, pageInfo}
SearchIssuesResults ==
    {[issues |-> [nodes |-> Issues(n),
                  pageInfo |-> [hasNextPage |-> more,
                                endCursor |-> IF more THEN "cursor-2" ELSE ""]]] :
        n \in 0..MaxNodes, more \in BOOLEAN}

\* DeleteIssueResponse: issueDelete {success}
DeleteIssueResults == {[issueDelete |-> [success |-> ok]] : ok \in BOOLEAN}

Settlements(results) == {NetworkError} \cup {Resolved(r) : r \in results}

----------------------------------------------------------------------------
(* Tool arguments, chosen by the caller. *)

\* [ "ENG-n", ..., "ENG-1" ]
Ids(n) == [k \in 1..n |-> JsString("ENG-" \o ToString(n + 1 - k))]
IdLists == {JsArray(Ids(n)) : n \in 0..MaxIds}

\* a value that should be a list of ids: absent, a bare string, or a list
IdListValues == {JsUndefined, JsString("ENG-1")} \cup IdLists

IssueInputs(n) == [k \in 1..n |-> JsObject("issue-" \o ToString(k))]

CreateIssueArgs ==
    [title : {JsUndefined, JsString("Fix login")},
     description : {JsUndefined, JsString("Login fails")},
     teamId : {JsUndefined, JsString("team-1")}]

CreateIssuesArgs ==
    [issues : {JsUndefined, JsString("issue-1")}
              \cup {JsArray(IssueInputs(n)) : n \in 0..MaxIds}]

BulkUpdateIssuesArgs ==
    [issueIds : IdListValues,
     update : {JsUndefined, JsObject("update")}]

\* args.filter of SearchIssuesInput: absent, or {identifier?, project?: {id?: {eq?}}}
NoProject == [present |-> FALSE, id |-> [present |-> FALSE, eq |-> JsUndefined]]
ProjectIdEq(v) == [present |-> TRUE, id |-> [present |-> TRUE, eq |-> v]]
NoFilter == [present |-> FALSE, identifier |-> JsUndefined, project |-> NoProject]

IdentifierValues == {JsUndefined, JsString(""), JsString("ENG-1")} \cup IdLists

FilterArgs ==
    {NoFilter} \cup
    [present : {TRUE},
     identifier : IdentifierValues,
     project : {NoProject} \cup
               {ProjectIdEq(v) : v \in {JsUndefined, JsString(""), JsString("proj-1")}}]

PriorityValues == {JsUndefined, JsString("1")} \cup {JsNumber(k) : k \in 0..MaxPriority}

SearchIssuesArgs ==
    [query : {JsUndefined, JsString(""), JsString("login bug")},
     filter : FilterArgs,
     teamIds : {JsUndefined, JsArray(<<>>), JsArray(<<JsString("team-1")>>)},
     assigneeIds : {JsUndefined, JsArray(<<JsString("user-1")>>)},
     states : {JsUndefined, JsArray(<<JsString("Todo"), JsString("Done")>>)},
     priority : PriorityValues,
     first : {JsUndefined, JsNumber(0), JsNumber(10)},
     after : {JsUndefined, JsString("cursor-1")},
     orderBy : {JsUndefined, JsString(""), JsString("createdAt")}]

SearchIssuesByIdentifierArgs == [identifiers : IdListValues]

DeleteIssueArgs == [id : {JsUndefined, JsString("ENG-123")}]

DeleteIssuesArgs == [ids : IdListValues]

----------------------------------------------------------------------------
(* Optional chaining on args.filter. *)

\* args.filter?.identifier
FilterIdentifier(a) == IF a.filter.present THEN a.filter.identifier ELSE JsUndefined

\* args.filter?.project?.id?.eq
FilterProjectIdEq(a) ==
    IF a.filter.present /\ a.filter.project.present /\ a.filter.project.id.present
    THEN a.filter.project.id.eq
    ELSE JsUndefined

----------------------------------------------------------------------------
(* The code of a handler before its await: the statements of the try block *)
(* run in order, and the first one that throws ends them.                  *)

Try(steps, final) ==
    IF \E k \in 1..Len(steps) : steps[k].kind = "throw"
    THEN steps[CHOOSE k \in 1..Len(steps) :
                  /\ steps[k].kind = "throw"
                  /\ \A j \in 1..(k - 1) : steps[j].kind # "throw"]
    ELSE final

\* if (!Array.isArray(v)) throw new Error(message)
ArrayCheck(v, message) == IF IsArray(v) THEN Return("ok") ELSE Throw(message)

DefaultFirst == 50
IdentifierSearchFirst == 100

----------------------------------------------------------------------------
(* handleCreateIssue *)

handleCreateIssueSync(au, a) ==
    Try(<<verifyAuth(au),
          validateRequiredParams(a, <<"title", "description", "teamId">>)>>,
        Await("createIssue", [input |-> a]))

handleCreateIssueCont(a, result) ==
    IF ~result.issueCreate.success \/ ~result.issueCreate.issue.present
    THEN Throw("Failed to create issue")
    ELSE LET issue == result.issueCreate.issue.value IN
         Return(createResponse(
            "Successfully created issue\n"
            \o "Issue: " \o issue.identifier \o "\n"
            \o "Title: " \o issue.title \o "\n"
            \o "URL: " \o issue.url \o "\n"
            \o "Project: "
            \o (IF issue.project.present THEN issue.project.name ELSE "None")))

----------------------------------------------------------------------------
(* handleCreateIssues *)

\* Mutant: one remote call per issue instead of one call with the list.
handleCreateIssuesSync_PerItem(au, a) ==
    Try(<<verifyAuth(au),
          validateRequiredParams(a, <<"issues">>),
          ArrayCheck(a.issues, "Issues parameter must be an array")>>,
        [kind |-> "await",
         calls |-> [k \in 1..Len(a.issues.a) |->
                      [method |-> "createIssue", params |-> [input |-> a.issues.a[k]]]]])

handleCreateIssuesSync(au, a) ==
    Try(<<verifyAuth(au),
          validateRequiredParams(a, <<"issues">>),
          ArrayCheck(a.issues, "Issues parameter must be an array")>>,
        Await("createIssues", [issues |-> a.issues]))

CreatedIssueLine(issue) ==
    JsString("- " \o issue.identifier \o ": " \o issue.title
             \o "\n  URL: " \o issue.url)

\* Mutant: the success flag is not looked at.
handleCreateIssuesCont_NoSuccessCheck(a, result) ==
    IF ~result.issueCreate.issues.present
    THEN Throw("Cannot read properties of undefined (reading 'length')")
    ELSE LET createdIssues == result.issueCreate.issues.value IN
         Return(createResponse(
            "Successfully created " \o ToString(Len(createdIssues)) \o " issues:\n"
            \o Join([k \in 1..Len(createdIssues) |->
                        CreatedIssueLine(createdIssues[k])], "\n")))

handleCreateIssuesCont(a, result) ==
    IF ~result.issueCreate.success
    THEN Throw("Failed to create issues")
    ELSE IF ~result.issueCreate.issues.present
    THEN Throw("Cannot read properties of undefined (reading 'length')")
    ELSE LET createdIssues == result.issueCreate.issues.value IN
         Return(createResponse(
            "Successfully created " \o ToString(Len(createdIssues)) \o " issues:\n"
            \o Join([k \in 1..Len(createdIssues) |->
                        CreatedIssueLine(createdIssues[k])], "\n")))

----------------------------------------------------------------------------
(* handleBulkUpdateIssues *)

\* Mutant: the arguments are validated before verifyAuth is called.
handleBulkUpdateIssuesSync_ValidateFirst(au, a) ==
    Try(<<validateRequiredParams(a, <<"issueIds", "update">>),
          ArrayCheck(a.issueIds, "IssueIds parameter must be an array"),
          verifyAuth(au)>>,
        Await("updateIssues", [issueIds |-> a.issueIds, update |-> a.update]))

handleBulkUpdateIssuesSync(au, a) ==
    Try(<<verifyAuth(au),
          validateRequiredParams(a, <<"issueIds", "update">>),
          ArrayCheck(a.issueIds, "IssueIds parameter must be an array")>>,
        Await("updateIssues", [issueIds |-> a.issueIds, update |-> a.update]))

\* Mutant: the count is taken from the issues the remote payload carries.
handleBulkUpdateIssuesCont_CountPayload(a, result) ==
    IF ~result.issueUpdate.success
    THEN Throw("Failed to update issues")
    ELSE LET updatedCount == IF result.issueUpdate.issue.present THEN 1 ELSE 0 IN
         Return(createResponse(
            "Successfully updated " \o ToString(updatedCount) \o " issues"))

handleBulkUpdateIssuesCont(a, result) ==
    IF ~result.issueUpdate.success
    THEN Throw("Failed to update issues")
    ELSE LET updatedCount == Len(a.issueIds.a) IN
         Return(createResponse(
            "Successfully updated " \o ToString(updatedCount) \o " issues"))

----------------------------------------------------------------------------
(* handleSearchIssues: the filter is built clause by clause. *)

\* Mutant: the query is applied even when an identifier is given (no else).
IdentifierOrSearch_NoElse(a, filter) ==
    LET withId == IF Truthy(FilterIdentifier(a))
                  THEN SetKey(filter, "identifier",
                              [in |-> JsArray(<<FilterIdentifier(a)>>)])
                  ELSE filter
    IN IF Truthy(a.query) THEN SetKey(withId, "search", a.query) ELSE withId

\* Mutant: the identifier value is passed as the list itself, not wrapped.
IdentifierOrSearch_Unwrapped(a, filter) ==
    IF Truthy(FilterIdentifier(a))
    THEN SetKey(filter, "identifier", [in |-> FilterIdentifier(a)])
    ELSE IF Truthy(a.query)
    THEN SetKey(filter, "search", a.query)
    ELSE filter

\* if (args.filter?.identifier) ... else if (args.query) ...
IdentifierOrSearch(a, filter) ==
    IF Truthy(FilterIdentifier(a))
    THEN SetKey(filter, "identifier", [in |-> JsArray(<<FilterIdentifier(a)>>)])
    ELSE IF Truthy(a.query)
    THEN SetKey(filter, "search", a.query)
    ELSE filter

\* if (args.filter?.project?.id?.eq) ...
ProjectClause(a, filter) ==
    IF Truthy(FilterProjectIdEq(a))
    THEN SetKey(filter, "project", [id |-> [eq |-> FilterProjectIdEq(a)]])
    ELSE filter

\* Mutant: an empty list of team ids sets no team clause.
TeamClause_NonEmpty(a, filter) ==
    IF Truthy(a.teamIds) /\ Len(a.teamIds.a) > 0
    THEN SetKey(filter, "team", [id |-> [in |-> a.teamIds]])
    ELSE filter

\* if (args.teamIds) ...
TeamClause(a, filter) ==
    IF Truthy(a.teamIds)
    THEN SetKey(filter, "team", [id |-> [in |-> a.teamIds]])
    ELSE filter

\* if (args.assigneeIds) ...
AssigneeClause(a, filter) ==
    IF Truthy(a.assigneeIds)
    THEN SetKey(filter, "assignee", [id |-> [in |-> a.assigneeIds]])
    ELSE filter

\* if (args.states) ...
StateClause(a, filter) ==
    IF Truthy(a.states)
    THEN SetKey(filter, "state", [name |-> [in |-> a.states]])
    ELSE filter

\* Mutant: a truthiness test, which drops priority 0.
PriorityClause_Truthy(a, filter) ==
    IF Truthy(a.priority)
    THEN SetKey(filter, "priority", [eq |-> a.priority])
    ELSE filter

\* if (typeof args.priority === "number") ...
PriorityClause(a, filter) ==
    IF TypeOf(a.priority) = "number"
    THEN SetKey(filter, "priority", [eq |-> a.priority])
    ELSE filter

SearchFilter(a) ==
    PriorityClause(a,
      StateClause(a,
        AssigneeClause(a,
          TeamClause(a,
            ProjectClause(a,
              IdentifierOrSearch(a, EmptyObject))))))

\* Mutant: the page size is always the default, the caller's first is ignored.
handleSearchIssuesSync_FixedPage(au, a) ==
    Try(<<verifyAuth(au)>>,
        Await("searchIssues",
              [filter |-> SearchFilter(a),
               first |-> JsNumber(DefaultFirst),
               after |-> a.after,
               orderBy |-> JsOr(a.orderBy, JsString("updatedAt"))]))

handleSearchIssuesSync(au, a) ==
    Try(<<verifyAuth(au)>>,
        Await("searchIssues",
              [filter |-> SearchFilter(a),
               first |-> JsOr(a.first, JsNumber(DefaultFirst)),
               after |-> a.after,
               orderBy |-> JsOr(a.orderBy, JsString("updatedAt"))]))

\* Mutant: only the nodes are returned, the page info is dropped.
handleSearchIssuesCont_NodesOnly(a, result) ==
    Return(createJsonResponse([issues |-> [nodes |-> result.issues.nodes]]))

handleSearchIssuesCont(a, result) == Return(createJsonResponse(result))

----------------------------------------------------------------------------
(* handleSearchIssuesByIdentifier *)

handleSearchIssuesByIdentifierSync(au, a) ==
    Try(<<verifyAuth(au),
          validateRequiredParams(a, <<"identifiers">>),
          ArrayCheck(a.identifiers, "Identifiers parameter must be an array")>>,
        Await("searchIssues",
              [filter |-> SetKey(EmptyObject, "identifier", [in |-> a.identifiers]),
               first |-> JsNumber(IdentifierSearchFirst),
               after |-> JsUndefined,
               orderBy |-> JsString("updatedAt")]))

FoundIssueText(issue) ==
    JsString(issue.identifier \o ": " \o issue.title \o "\n"
             \o (IF issue.state.present
                 THEN "Status: " \o issue.state.name \o "\n" ELSE "")
             \o "URL: " \o issue.url \o "\n"
             \o (IF issue.assignee.present
                 THEN "Assignee: " \o issue.assignee.name \o "\n" ELSE "")
             \o (IF issue.project.present
                 THEN "Project: " \o issue.project.name \o "\n" ELSE ""))

\* Mutant: an empty result is raised as an error.
handleSearchIssuesByIdentifierCont_ThrowsNotFound(a, result) ==
    IF Len(result.issues.nodes) = 0
    THEN Throw("No issues found with identifiers: " \o Join(a.identifiers.a, ", "))
    ELSE Return(createResponse(
            Join([k \in 1..Len(result.issues.nodes) |->
                     FoundIssueText(result.issues.nodes[k])], "\n")))

handleSearchIssuesByIdentifierCont(a, result) ==
    IF Len(result.issues.nodes) = 0
    THEN Return(createResponse(
            "No issues found with identifiers: " \o Join(a.identifiers.a, ", ")))
    ELSE Return(createResponse(
            Join([k \in 1..Len(result.issues.nodes) |->
                     FoundIssueText(result.issues.nodes[k])], "\n")))

----------------------------------------------------------------------------
(* handleDeleteIssue *)

handleDeleteIssueSync(au, a) ==
    Try(<<verifyAuth(au), validateRequiredParams(a, <<"id">>)>>,
        Await("deleteIssue", [id |-> a.id]))

handleDeleteIssueCont(a, result) ==
    IF ~result.issueDelete.success
    THEN Throw("Failed to delete issue")
    ELSE Return(createResponse("Successfully deleted issue " \o JsToString(a.id)))

----------------------------------------------------------------------------
(* handleDeleteIssues *)

handleDeleteIssuesSync(au, a) ==
    Try(<<verifyAuth(au),
          validateRequiredParams(a, <<"ids">>),
          ArrayCheck(a.ids, "Ids parameter must be an array")>>,
        Await("deleteIssues", [ids |-> a.ids]))

handleDeleteIssuesCont(a, result) ==
    IF ~result.issueDelete.success
    THEN Throw("Failed to delete issues")
    ELSE Return(createResponse(
            "Successfully deleted " \o ToString(Len(a.ids.a)) \o " issues: "
            \o Join(a.ids.a, ", ")))

----------------------------------------------------------------------------
(* An invocation of a handler. *)

Handlers ==
    {"handleCreateIssue", "handleCreateIssues", "handleBulkUpdateIssues",
     "handleSearchIssues", "handleSearchIssuesByIdentifier",
     "handleDeleteIssue", "handleDeleteIssues"}

\* the operation name each handler's catch block gives handleError
Operation(h) ==
    CASE h = "handleCreateIssue" -> "create issue"
      [] h = "handleCreateIssues" -> "create issues"
      [] h = "handleBulkUpdateIssues" -> "update issues"
      [] h = "handleSearchIssues" -> "search issues"
      [] h = "handleSearchIssuesByIdentifier" -> "search issues by identifier"
      [] h = "handleDeleteIssue" -> "delete issue"
      [] h = "handleDeleteIssues" -> "delete issues"

Sync(h, au, a) ==
    CASE h = "handleCreateIssue" -> handleCreateIssueSync(au, a)
      [] h = "handleCreateIssues" -> handleCreateIssuesSync(au, a)
      [] h = "handleBulkUpdateIssues" -> handleBulkUpdateIssuesSync(au, a)
      [] h = "handleSearchIssues" -> handleSearchIssuesSync(au, a)
      [] h = "handleSearchIssuesByIdentifier" -> handleSearchIssuesByIdentifierSync(au, a)
      [] h = "handleDeleteIssue" -> handleDeleteIssueSync(au, a)
      [] h = "handleDeleteIssues" -> handleDeleteIssuesSync(au, a)

Cont(h, a, result) ==
    CASE h = "handleCreateIssue" -> handleCreateIssueCont(a, result)
      [] h = "handleCreateIssues" -> handleCreateIssuesCont(a, result)
      [] h = "handleBulkUpdateIssues" -> handleBulkUpdateIssuesCont(a, result)
      [] h = "handleSearchIssues" -> handleSearchIssuesCont(a, result)
      [] h = "handleSearchIssuesByIdentifier" -> handleSearchIssuesByIdentifierCont(a, result)
      [] h = "handleDeleteIssue" -> handleDeleteIssueCont(a, result)
      [] h = "handleDeleteIssues" -> handleDeleteIssuesCont(a, result)

\* try { ... } catch (error) { this.handleError(error, operation) }, after the await
AfterAwait(h, a, s) ==
    IF s.rejected
    THEN handleError(s.message, Operation(h))
    ELSE IF Cont(h, a, s.value).kind = "throw"
    THEN handleError(Cont(h, a, s.value).message, Operation(h))
    ELSE Cont(h, a, s.value).response

\* Mutant: the arguments are kept in a field of the handler object, which the
\* latest invocation of the same handler method has overwritten.
ArgsAfterAwait_Shared(i) ==
    args[CHOOSE j \in DOMAIN args :
            /\ tool[j] = tool[i]
            /\ \A k \in DOMAIN args : tool[k] = tool[i] => k <= j]

\* the args parameter the code after the await reads: the invocation's own
ArgsAfterAwait(i) == args[i]

NoArgs == <<>>
NotSettled == [rejected |-> FALSE, message |-> "", value |-> <<>>]
NoResponse == [kind |-> "none"]

\* The call of handler h with arguments a, up to its await (or its throw).
Begin(i, h, a) ==
    /\ tool' = [tool EXCEPT ![i] = h]
    /\ args' = [args EXCEPT ![i] = a]
    /\ IF Sync(h, auth, a).kind = "throw"
       THEN /\ pc' = [pc EXCEPT ![i] = "done"]
            /\ response' = [response EXCEPT
                              ![i] = handleError(Sync(h, auth, a).message, Operation(h))]
            /\ calls' = calls
       ELSE /\ pc' = [pc EXCEPT ![i] = "awaiting"]
            /\ calls' = [calls EXCEPT ![i] = @ \o Sync(h, auth, a).calls]
            /\ response' = response
    /\ UNCHANGED <<auth, settled>>

\* The awaited promise settles as s and the rest of handler h runs.
Settle(i, h, s) ==
    /\ settled' = [settled EXCEPT ![i] = s]
    /\ pc' = [pc EXCEPT ![i] = "done"]
    /\ response' = [response EXCEPT ![i] = AfterAwait(h, ArgsAfterAwait(i), s)]
    /\ UNCHANGED <<auth, tool, args, calls>>

handleCreateIssue(i, A) ==
    /\ pc[i] = "idle"
    /\ \E a \in A : Begin(i, "handleCreateIssue", a)

handleCreateIssueAwait(i, R) ==
    /\ pc[i] = "awaiting"
    /\ tool[i] = "handleCreateIssue"
    /\ \E s \in R : Settle(i, "handleCreateIssue", s)

handleCreateIssues(i, A) ==
    /\ pc[i] = "idle"
    /\ \E a \in A : Begin(i, "handleCreateIssues", a)

handleCreateIssuesAwait(i, R) ==
    /\ pc[i] = "awaiting"
    /\ tool[i] = "handleCreateIssues"
    /\ \E s \in R : Settle(i, "handleCreateIssues", s)

handleBulkUpdateIssues(i, A) ==
    /\ pc[i] = "idle"
    /\ \E a \in A : Begin(i, "handleBulkUpdateIssues", a)

handleBulkUpdateIssuesAwait(i, R) ==
    /\ pc[i] = "awaiting"
    /\ tool[i] = "handleBulkUpdateIssues"
    /\ \E s \in R : Settle(i, "handleBulkUpdateIssues", s)

handleSearchIssues(i, A) ==
    /\ pc[i] = "idle"
    /\ \E a \in A : Begin(i, "handleSearchIssues", a)

handleSearchIssuesAwait(i, R) ==
    /\ pc[i] = "awaiting"
    /\ tool[i] = "handleSearchIssues"
    /\ \E s \in R : Settle(i, "handleSearchIssues", s)

handleSearchIssuesByIdentifier(i, A) ==
    /\ pc[i] = "idle"
    /\ \E a \in A : Begin(i, "handleSearchIssuesByIdentifier", a)

handleSearchIssuesByIdentifierAwait(i, R) ==
    /\ pc[i] = "awaiting"
    /\ tool[i] = "handleSearchIssuesByIdentifier"
    /\ \E s \in R : Settle(i, "handleSearchIssuesByIdentifier", s)

handleDeleteIssue(i, A) ==
    /\ pc[i] = "idle"
    /\ \E a \in A : Begin(i, "handleDeleteIssue", a)

handleDeleteIssueAwait(i, R) ==
    /\ pc[i] = "awaiting"
    /\ tool[i] = "handleDeleteIssue"
    /\ \E s \in R : Settle(i, "handleDeleteIssue", s)

handleDeleteIssues(i, A) ==
    /\ pc[i] = "idle"
    /\ \E a \in A : Begin(i, "handleDeleteIssues", a)

handleDeleteIssuesAwait(i, R) ==
    /\ pc[i] = "awaiting"
    /\ tool[i] = "handleDeleteIssues"
    /\ \E s \in R : Settle(i, "handleDeleteIssues", s)

----------------------------------------------------------------------------
(* One invocation, over every argument and every remote result. *)

InitOver(I) ==
    /\ auth \in BOOLEAN
    /\ pc = [i \in I |-> "idle"]
    /\ tool = [i \in I |-> "none"]
    /\ args = [i \in I |-> NoArgs]
    /\ settled = [i \in I |-> NotSettled]
    /\ response = [i \in I |-> NoResponse]
    /\ calls = [i \in I |-> <<>>]

Init == InitOver({1})

Next ==
    \/ handleCreateIssue(1, CreateIssueArgs)
    \/ handleCreateIssueAwait(1, Settlements(CreateIssueResults))
    \/ handleCreateIssues(1, CreateIssuesArgs)
    \/ handleCreateIssuesAwait(1, Settlements(CreateIssuesResults))
    \/ handleBulkUpdateIssues(1, BulkUpdateIssuesArgs)
    \/ handleBulkUpdateIssuesAwait(1, Settlements(UpdateIssueResults))
    \/ handleSearchIssues(1, SearchIssuesArgs)
    \/ handleSearchIssuesAwait(1, Settlements(SearchIssuesResults))
    \/ handleSearchIssuesByIdentifier(1, SearchIssuesByIdentifierArgs)
    \/ handleSearchIssuesByIdentifierAwait(1, Settlements(SearchIssuesResults))
    \/ handleDeleteIssue(1, DeleteIssueArgs)
    \/ handleDeleteIssueAwait(1, Settlements(DeleteIssueResults))
    \/ handleDeleteIssues(1, DeleteIssuesArgs)
    \/ handleDeleteIssuesAwait(1, Settlements(DeleteIssueResults))

Spec == Init /\ [][Next]_vars

----------------------------------------------------------------------------
(* Concurrent invocations: every handler may be started while others are   *)
(* suspended at their await, and the awaited promises settle in any order. *)
(* The arguments and results are a few per handler, all different.         *)

Invocations == 1..MaxInvocations

ConcurrentCreateIssueArgs ==
    {a \in CreateIssueArgs :
        a.title # JsUndefined /\ a.description # JsUndefined /\ a.teamId # JsUndefined}
ConcurrentCreateIssuesArgs == {[issues |-> JsArray(IssueInputs(2))]}
ConcurrentBulkUpdateIssuesArgs ==
    {[issueIds |-> JsArray(Ids(n)), update |-> JsObject("update")] : n \in 1..2}
ConcurrentSearchIssuesArgs ==
    [query : {JsString("login bug")},
     filter : {NoFilter,
               [present |-> TRUE, identifier |-> JsString("ENG-1"),
                project |-> NoProject]},
     teamIds : {JsUndefined}, assigneeIds : {JsUndefined}, states : {JsUndefined},
     priority : {JsUndefined}, first : {JsUndefined}, after : {JsUndefined},
     orderBy : {JsUndefined}]
ConcurrentSearchIssuesByIdentifierArgs ==
    {[identifiers |-> JsArray(Ids(n))] : n \in 1..2}
ConcurrentDeleteIssueArgs == {[id |-> JsString("ENG-123")]}
ConcurrentDeleteIssuesArgs == {[ids |-> JsArray(Ids(n))] : n \in 1..2}

ConcurrentCreateIssueResults ==
    {r \in CreateIssueResults :
        r.issueCreate.success /\ r.issueCreate.issue = [present |-> TRUE, value |-> Issue(1)]}
ConcurrentCreateIssuesResults ==
    {r \in CreateIssuesResults :
        r.issueCreate.success
        /\ r.issueCreate.issues = [present |-> TRUE, value |-> Issues(1)]}
ConcurrentUpdateIssueResults ==
    {r \in UpdateIssueResults : r.issueUpdate.issue.present}
ConcurrentSearchIssuesResults ==
    {r \in SearchIssuesResults :
        Len(r.issues.nodes) = 0 /\ ~r.issues.pageInfo.hasNextPage}
ConcurrentDeleteIssueResults ==
    {r \in DeleteIssueResults : r.issueDelete.success}

InitConcurrent == InitOver(Invocations)

NextConcurrent ==
    \E i \in Invocations :
        \/ handleCreateIssue(i, ConcurrentCreateIssueArgs)
        \/ handleCreateIssueAwait(i, Settlements(ConcurrentCreateIssueResults))
        \/ handleCreateIssues(i, ConcurrentCreateIssuesArgs)
        \/ handleCreateIssuesAwait(i, Settlements(ConcurrentCreateIssuesResults))
        \/ handleBulkUpdateIssues(i, ConcurrentBulkUpdateIssuesArgs)
        \/ handleBulkUpdateIssuesAwait(i, Settlements(ConcurrentUpdateIssueResults))
        \/ handleSearchIssues(i, ConcurrentSearchIssuesArgs)
        \/ handleSearchIssuesAwait(i, Settlements(ConcurrentSearchIssuesResults))
        \/ handleSearchIssuesByIdentifier(i, ConcurrentSearchIssuesByIdentifierArgs)
        \/ handleSearchIssuesByIdentifierAwait(i, Settlements(ConcurrentSearchIssuesResults))
        \/ handleDeleteIssue(i, ConcurrentDeleteIssueArgs)
        \/ handleDeleteIssueAwait(i, Settlements(ConcurrentDeleteIssueResults))
        \/ handleDeleteIssues(i, ConcurrentDeleteIssuesArgs)
        \/ handleDeleteIssuesAwait(i, Settlements(ConcurrentDeleteIssueResults))

SpecConcurrent == InitConcurrent /\ [][NextConcurrent]_vars

----------------------------------------------------------------------------
(* Properties. *)

Started(i) == pc[i] # "idle"
\* invocation i reached its remote call
Awaited(i) == Len(calls[i]) > 0
\* the remote call of invocation i resolved (its promise was not rejected)
GotResult(i) == pc[i] = "done" /\ Awaited(i) /\ ~settled[i].rejected
Supplied(v) == v.t # "undefined"
\* the object has the key
HasKey(obj, key) == key \in DOMAIN obj
\* invocation i runs handleSearchIssues and has called client.searchIssues
Searching(i) == tool[i] = "handleSearchIssues" /\ Awaited(i)
SearchParams(i) == calls[i][1].params

\* C1 as stated: with both an identifier filter and a query supplied, the
\* filter passed to client.searchIssues has an identifier clause and no search
\* clause; a search clause appears only when a query is supplied and no
\* identifier filter is.
C1_AsStated ==
    \A i \in DOMAIN pc :
        Searching(i) =>
            /\ (Supplied(FilterIdentifier(args[i])) /\ Supplied(args[i].query))
                 => /\ HasKey(SearchParams(i).filter, "identifier")
                    /\ ~HasKey(SearchParams(i).filter, "search")
            /\ HasKey(SearchParams(i).filter, "search")
                 => /\ Supplied(args[i].query)
                    /\ ~Supplied(FilterIdentifier(args[i]))

\* C1 (amended): with both a non-empty (truthy) identifier filter and a query
\* supplied, the filter passed to client.searchIssues has an identifier clause
\* and no search clause; a search clause appears only when a query is supplied
\* and no non-empty identifier filter is.
C1_IdentifierSupersedesQuery ==
    \A i \in DOMAIN pc :
        Searching(i) =>
            /\ (Truthy(FilterIdentifier(args[i])) /\ Supplied(args[i].query))
                 => /\ HasKey(SearchParams(i).filter, "identifier")
                    /\ ~HasKey(SearchParams(i).filter, "search")
            /\ HasKey(SearchParams(i).filter, "search")
                 => /\ Supplied(args[i].query)
                    /\ ~Truthy(FilterIdentifier(args[i]))

\* an identifier and a non-empty query were both supplied and the search was sent
C1_Witness ==
    \E i \in DOMAIN pc :
        /\ Searching(i)
        /\ FilterIdentifier(args[i]) = JsString("ENG-1")
        /\ args[i].query = JsString("login bug")
        /\ DOMAIN SearchParams(i).filter = {"identifier"}

\* C2: the filter passed to the remote search has priority = {eq: priority}
\* whenever priority is supplied as a number, 0 included, and has no priority
\* clause exactly when no numeric priority is supplied.
C2_PriorityZeroKept ==
    \A i \in DOMAIN pc :
        Searching(i) =>
            /\ args[i].priority.t = "number"
                 => /\ HasKey(SearchParams(i).filter, "priority")
                    /\ SearchParams(i).filter.priority = [eq |-> JsNumber(args[i].priority.n)]
            /\ ~HasKey(SearchParams(i).filter, "priority")
                 <=> args[i].priority.t # "number"

\* priority 0 was supplied and the search was sent with priority {eq: 0}
C2_Witness ==
    \E i \in DOMAIN pc :
        /\ Searching(i)
        /\ args[i].priority = JsNumber(0)
        /\ SearchParams(i).filter.priority = [eq |-> JsNumber(0)]

\* C10 as stated: when an identifier list is supplied, the filter passed to the
\* remote search has identifier = {in: identifiers}, the supplied list itself.
C10_AsStated ==
    \A i \in DOMAIN pc :
        (Searching(i) /\ IsArray(FilterIdentifier(args[i])))
            => /\ HasKey(SearchParams(i).filter, "identifier")
               /\ SearchParams(i).filter.identifier = [in |-> FilterIdentifier(args[i])]

\* C10 (amended): when a non-empty (truthy) identifier value is supplied, the
\* filter passed to the remote search has identifier = {in: [identifier]}: a
\* list of exactly one element, the supplied value, so a supplied list is
\* nested one level.
C10_IdentifierWrapped ==
    \A i \in DOMAIN pc :
        (Searching(i) /\ Truthy(FilterIdentifier(args[i])))
            => /\ HasKey(SearchParams(i).filter, "identifier")
               /\ SearchParams(i).filter.identifier.in.t = "array"
               /\ Len(SearchParams(i).filter.identifier.in.a) = 1
               /\ SearchParams(i).filter.identifier.in.a[1] = FilterIdentifier(args[i])

\* a list of two identifiers was supplied and sent as one nested element
C10_Witness ==
    \E i \in DOMAIN pc :
        /\ Searching(i)
        /\ FilterIdentifier(args[i]) = JsArray(<<JsString("ENG-2"), JsString("ENG-1")>>)
        /\ SearchParams(i).filter.identifier.in
             = JsArray(<<JsArray(<<JsString("ENG-2"), JsString("ENG-1")>>)>>)

MutationHandlers ==
    {"handleCreateIssue", "handleCreateIssues", "handleBulkUpdateIssues",
     "handleDeleteIssue", "handleDeleteIssues"}

\* the success flag of a mutation's remote result
SuccessFlag(h, result) ==
    CASE h \in {"handleCreateIssue", "handleCreateIssues"} -> result.issueCreate.success
      [] h = "handleBulkUpdateIssues" -> result.issueUpdate.success
      [] h \in {"handleDeleteIssue", "handleDeleteIssues"} -> result.issueDelete.success

C3_OperationName(h) ==
    CASE h = "handleCreateIssue" -> "create issue"
      [] h = "handleCreateIssues" -> "create issues"
      [] h = "handleBulkUpdateIssues" -> "update issues"
      [] h = "handleDeleteIssue" -> "delete issue"
      [] h = "handleDeleteIssues" -> "delete issues"

\* C3: a mutation handler whose remote result has success = false ends in the
\* error path with the handler's operation name, never in a "Successfully ..."
\* response.
C3_FailureNeverSuccess ==
    \A i \in DOMAIN pc :
        (/\ tool[i] \in MutationHandlers
         /\ GotResult(i)
         /\ ~SuccessFlag(tool[i], settled[i].value))
            => /\ response[i].kind = "error"
               /\ response[i].operation = C3_OperationName(tool[i])

\* a bulk create whose remote result carries issues but success = false
C3_Witness ==
    \E i \in DOMAIN pc :
        /\ tool[i] = "handleCreateIssues"
        /\ GotResult(i)
        /\ ~settled[i].value.issueCreate.success
        /\ settled[i].value.issueCreate.issues.present
        /\ response[i].kind = "error"
        /\ response[i].operation = "create issues"

\* the fields each handler requires, and the one that must be an array
C4_Required(h) ==
    CASE h = "handleCreateIssue" -> {"title", "description", "teamId"}
      [] h = "handleCreateIssues" -> {"issues"}
      [] h = "handleBulkUpdateIssues" -> {"issueIds", "update"}
      [] h = "handleSearchIssuesByIdentifier" -> {"identifiers"}
      [] h = "handleDeleteIssue" -> {"id"}
      [] h = "handleDeleteIssues" -> {"ids"}
      [] OTHER -> {}

C4_ArrayFields(h) ==
    CASE h = "handleCreateIssues" -> {"issues"}
      [] h = "handleBulkUpdateIssues" -> {"issueIds"}
      [] h = "handleSearchIssuesByIdentifier" -> {"identifiers"}
      [] h = "handleDeleteIssues" -> {"ids"}
      [] OTHER -> {}

C4_Invalid(h, a) ==
    \/ \E f \in C4_Required(h) : ~Supplied(a[f])
    \/ \E f \in C4_ArrayFields(h) : ~IsArray(a[f])

\* C4: verifyAuth comes first, validation second, the remote call last: an
\* unauthenticated invocation fails with the auth error and makes no remote
\* call, whatever its arguments; an invocation with a missing required field
\* or a non-array where an array is required makes no remote call.
C4_AuthThenValidationThenCall ==
    \A i \in DOMAIN pc :
        Started(i) =>
            /\ ~auth => /\ pc[i] = "done"
                        /\ ~Awaited(i)
                        /\ response[i].kind = "error"
                        /\ response[i].cause = AuthErrorMessage
            /\ C4_Invalid(tool[i], args[i])
                 => /\ pc[i] = "done"
                    /\ ~Awaited(i)
                    /\ response[i].kind = "error"

\* an unauthenticated bulk update without its update field: the auth error
C4_Witness ==
    \E i \in DOMAIN pc :
        /\ ~auth
        /\ tool[i] = "handleBulkUpdateIssues"
        /\ pc[i] = "done"
        /\ ~Supplied(args[i].update)
        /\ response[i].cause = AuthErrorMessage
        /\ ~Awaited(i)

\* C5: a bulk update of N identifiers whose remote result has success = true
\* returns "Successfully updated N issues", N the length of the input list,
\* whatever the payload says.
C5_UpdatedCountIsInputLength ==
    \A i \in DOMAIN pc :
        (/\ tool[i] = "handleBulkUpdateIssues"
         /\ GotResult(i)
         /\ settled[i].value.issueUpdate.success)
            => response[i] =
                 [kind |-> "text",
                  text |-> "Successfully updated "
                           \o ToString(Len(args[i].issueIds.a)) \o " issues"]

\* two identifiers, a successful result whose payload names one issue
C5_Witness ==
    \E i \in DOMAIN pc :
        /\ tool[i] = "handleBulkUpdateIssues"
        /\ GotResult(i)
        /\ Len(args[i].issueIds.a) = 2
        /\ settled[i].value.issueUpdate.success
        /\ settled[i].value.issueUpdate.issue.present
        /\ response[i].text = "Successfully updated 2 issues"

\* C6: an identifier search whose remote result has zero nodes returns (does
\* not raise) "No issues found with identifiers: ..." listing the supplied
\* identifiers in the supplied order.
C6_NoIssuesFoundMessage ==
    \A i \in DOMAIN pc :
        (/\ tool[i] = "handleSearchIssuesByIdentifier"
         /\ GotResult(i)
         /\ Len(settled[i].value.issues.nodes) = 0)
            => response[i] =
                 [kind |-> "text",
                  text |-> "No issues found with identifiers: "
                           \o Join(args[i].identifiers.a, ", ")]

\* ["ENG-2", "ENG-1"] searched, nothing found
C6_Witness ==
    \E i \in DOMAIN pc :
        /\ tool[i] = "handleSearchIssuesByIdentifier"
        /\ GotResult(i)
        /\ args[i].identifiers = JsArray(<<JsString("ENG-2"), JsString("ENG-1")>>)
        /\ Len(settled[i].value.issues.nodes) = 0
        /\ response[i] = [kind |-> "text",
                          text |-> "No issues found with identifiers: ENG-2, ENG-1"]

\* C7: handleSearchIssues hands the value client.searchIssues returned to the
\* response unmodified, page info and cursor included.
C7_SearchResultPassedThrough ==
    \A i \in DOMAIN pc :
        (tool[i] = "handleSearchIssues" /\ GotResult(i))
            => /\ response[i].kind = "json"
               /\ response[i].doc = settled[i].value

\* a result page with a node and a cursor for the next page was returned
C7_Witness ==
    \E i \in DOMAIN pc :
        /\ tool[i] = "handleSearchIssues"
        /\ GotResult(i)
        /\ Len(settled[i].value.issues.nodes) >= 1
        /\ settled[i].value.issues.pageInfo.endCursor = "cursor-2"
        /\ response[i].doc.issues.pageInfo.endCursor = "cursor-2"

\* what an invocation of h with arguments a does when it runs alone
CallsAlone(h, au, a) ==
    IF Sync(h, au, a).kind = "throw" THEN <<>> ELSE Sync(h, au, a).calls
RunAlone(h, au, a, s) ==
    IF Sync(h, au, a).kind = "throw"
    THEN handleError(Sync(h, au, a).message, Operation(h))
    ELSE AfterAwait(h, a, s)

C9_AtMostOneRemoteCall ==
    \A i \in DOMAIN pc :
        /\ Len(calls[i]) <= 1
        /\ pc[i] = "awaiting" => Len(calls[i]) = 1
        /\ (pc[i] = "done" /\ settled[i].rejected) => Len(calls[i]) = 1
        /\ (Awaited(i) /\ tool[i] = "handleCreateIssues")
             => calls[i][1] = [method |-> "createIssues",
                               params |-> [issues |-> args[i].issues]]
        /\ (Awaited(i) /\ tool[i] = "handleBulkUpdateIssues")
             => calls[i][1] = [method |-> "updateIssues",
                               params |-> [issueIds |-> args[i].issueIds,
                                           update |-> args[i].update]]
        /\ (Awaited(i) /\ tool[i] = "handleDeleteIssues")
             => calls[i][1] = [method |-> "deleteIssues",
                               params |-> [ids |-> args[i].ids]]

\* a bulk create of two issues whose remote call failed: one call, no retry
C9_Witness ==
    \E i \in DOMAIN pc :
        /\ tool[i] = "handleCreateIssues"
        /\ Len(args[i].issues.a) = 2
        /\ pc[i] = "done"
        /\ settled[i].rejected
        /\ Len(calls[i]) = 1
        /\ response[i].kind = "error"

\* C11 as stated: the page size passed to the remote search is the caller's
\* first whenever first is supplied and is 50 exactly when first is absent; the
\* ordering field is the caller's orderBy whenever supplied and "updatedAt"
\* exactly when absent; the cursor is the caller's after unchanged.
C11_AsStated ==
    \A i \in DOMAIN pc :
        Searching(i) =>
            /\ Supplied(args[i].first) => SearchParams(i).first = args[i].first
            /\ SearchParams(i).first = JsNumber(50) <=> ~Supplied(args[i].first)
            /\ Supplied(args[i].orderBy) => SearchParams(i).orderBy = args[i].orderBy
            /\ SearchParams(i).orderBy = JsString("updatedAt")
                 <=> ~Supplied(args[i].orderBy)
            /\ SearchParams(i).after = args[i].after

\* C11 (amended): the page size passed to the remote search is the caller's
\* first whenever first is supplied and not 0, and is 50 when first is absent
\* or 0; the ordering field is the caller's orderBy whenever it is supplied and
\* not the empty string, and "updatedAt" when it is absent or empty; the cursor
\* is the caller's after unchanged.
C11_PaginationDefaults ==
    \A i \in DOMAIN pc :
        Searching(i) =>
            /\ (Supplied(args[i].first) /\ args[i].first # JsNumber(0))
                 => SearchParams(i).first = args[i].first
            /\ (~Supplied(args[i].first) \/ args[i].first = JsNumber(0))
                 => SearchParams(i).first = JsNumber(50)
            /\ (Supplied(args[i].orderBy) /\ args[i].orderBy # JsString(""))
                 => SearchParams(i).orderBy = args[i].orderBy
            /\ (~Supplied(args[i].orderBy) \/ args[i].orderBy = JsString(""))
                 => SearchParams(i).orderBy = JsString("updatedAt")
            /\ SearchParams(i).after = args[i].after

\* first = 10, orderBy = "createdAt" and a cursor were supplied and passed on
C11_Witness ==
    \E i \in DOMAIN pc :
        /\ Searching(i)
        /\ args[i].first = JsNumber(10)
        /\ args[i].orderBy = JsString("createdAt")
        /\ args[i].after = JsString("cursor-1")
        /\ SearchParams(i).first = JsNumber(10)
        /\ SearchParams(i).orderBy = JsString("createdAt")
        /\ SearchParams(i).after = JsString("cursor-1")

C12_Keys == {"identifier", "search", "project", "team", "assignee", "state", "priority"}

\* the team, assignee and state clauses of C12, which both readings share
C12_ListClauses(i) ==
    /\ HasKey(SearchParams(i).filter, "team") <=> Supplied(args[i].teamIds)
    /\ HasKey(SearchParams(i).filter, "team")
         => SearchParams(i).filter.team = [id |-> [in |-> args[i].teamIds]]
    /\ HasKey(SearchParams(i).filter, "assignee") <=> Supplied(args[i].assigneeIds)
    /\ HasKey(SearchParams(i).filter, "assignee")
         => SearchParams(i).filter.assignee = [id |-> [in |-> args[i].assigneeIds]]
    /\ HasKey(SearchParams(i).filter, "state") <=> Supplied(args[i].states)
    /\ HasKey(SearchParams(i).filter, "state")
         => SearchParams(i).filter.state = [name |-> [in |-> args[i].states]]
    /\ HasKey(SearchParams(i).filter, "project")
         => SearchParams(i).filter.project = [id |-> [eq |-> FilterProjectIdEq(args[i])]]
    /\ DOMAIN SearchParams(i).filter \subseteq C12_Keys

\* C12 as stated: for every input the filter has a team clause {id: {in:
\* teamIds}} iff teamIds is supplied, an assignee clause iff assigneeIds is
\* supplied, a state clause {name: {in: states}} iff states is supplied, a
\* project clause {id: {eq: projectId}} iff a project-id equality is supplied,
\* and no key beyond the seven filter keys.
C12_AsStated ==
    \A i \in DOMAIN pc :
        Searching(i) =>
            /\ C12_ListClauses(i)
            /\ HasKey(SearchParams(i).filter, "project")
                 <=> Supplied(FilterProjectIdEq(args[i]))

\* C12 (amended): as stated, except that the project clause is present iff a
\* non-empty project-id equality is supplied (an empty-string project id sets
\* no project clause).
C12_FilterClauses ==
    \A i \in DOMAIN pc :
        Searching(i) =>
            /\ C12_ListClauses(i)
            /\ HasKey(SearchParams(i).filter, "project")
                 <=> (/\ Supplied(FilterProjectIdEq(args[i]))
                      /\ FilterProjectIdEq(args[i]) # JsString(""))

\* an empty team list, assignees, states and a project id beside an identifier
C12_Witness ==
    \E i \in DOMAIN pc :
        /\ Searching(i)
        /\ args[i].teamIds = JsArray(<<>>)
        /\ Supplied(args[i].assigneeIds)
        /\ Supplied(args[i].states)
        /\ FilterProjectIdEq(args[i]) = JsString("proj-1")
        /\ FilterIdentifier(args[i]) = JsString("ENG-1")
        /\ DOMAIN SearchParams(i).filter
             = {"identifier", "project", "team", "assignee", "state"}
        /\ SearchParams(i).filter.team = [id |-> [in |-> JsArray(<<>>)]]

============================================================================
